---------------------------- MODULE Spec2Model ----------------------------
(***************************************************************************)
(* Model of TestPerformance.py: a 54-facelet cube state, a catalog of      *)
(* moves compiled from a declarative description into index vectors, the   *)
(* application of one move and of a sequence of moves, and the benchmark    *)
(* driver main().                                                          *)
(*                                                                         *)
(* Conventions.  A Python str is a sequence of one-character strings.  A   *)
(* NumPy array or a Python list indexed from 0 is a function on 0..n-1.    *)
(* A dict is a sequence of <<key, value>> pairs in insertion order with    *)
(* distinct keys when its order is read by the code, and a function on its *)
(* key set otherwise.  A call that can raise returns a record whose field  *)
(* err is "none" or the name of the Python exception.                      *)
(***************************************************************************)
EXTENDS Integers, Sequences, FiniteSets, TLC

\* np.arange(54), and the 54 of load_cube's length test
N == 54

\* Bounds of the model
MaxPairs == 2
MaxSeq == 2
MaxParam == 2
MaxTotal == 6

-----------------------------------------------------------------------------
(* Python values *)

Len0(a) == Cardinality(DOMAIN a)

\* a Python list given as a TLA+ sequence, as the 0-indexed array np.array makes of it
ToArray(list) == [i \in 0..(Len(list) - 1) |-> list[i + 1]]

Digits == {"0", "1", "2", "3", "4", "5", "6", "7", "8", "9"}

DigitVal(c) ==
    CASE c = "0" -> 0 [] c = "1" -> 1 [] c = "2" -> 2 [] c = "3" -> 3
      [] c = "4" -> 4 [] c = "5" -> 5 [] c = "6" -> 6 [] c = "7" -> 7
      [] c = "8" -> 8 [] c = "9" -> 9

RECURSIVE DigitsVal(_)
DigitsVal(s) ==
    IF Len(s) = 0 THEN 0
    ELSE 10 * DigitsVal(SubSeq(s, 1, Len(s) - 1)) + DigitVal(s[Len(s)])

RECURSIVE LStrip(_)
LStrip(s) == IF Len(s) > 0 /\ s[1] = " " THEN LStrip(Tail(s)) ELSE s

RECURSIVE RStrip(_)
RStrip(s) ==
    IF Len(s) > 0 /\ s[Len(s)] = " " THEN RStrip(SubSeq(s, 1, Len(s) - 1)) ELSE s

\* int(str) on strings over digits, "+", "-", " " and other letters: surrounding
\* blanks are dropped, one sign is allowed, at least one digit must follow and
\* nothing else may; otherwise ValueError.
ParseInt(s) ==
    LET t == RStrip(LStrip(s))
        signed == Len(t) > 0 /\ t[1] \in {"+", "-"}
        body == IF signed THEN Tail(t) ELSE t
    IN  IF Len(body) > 0 /\ \A i \in 1..Len(body) : body[i] \in Digits
        THEN [err |-> "none",
              val |-> IF signed /\ t[1] = "-" THEN 0 - DigitsVal(body)
                      ELSE DigitsVal(body)]
        ELSE [err |-> "ValueError", val |-> 0]

\* a[idx] of NumPy and of list: a negative idx counts from the end
InRange(idx, n) == idx >= 0 - n /\ idx < n
NormIndex(idx, n) == IF idx < 0 THEN idx + n ELSE idx

-----------------------------------------------------------------------------
(* precompute_permutations *)

Identity == [i \in 0..(N - 1) |-> i]

\* PermLoop with the item read as (tgt, src): the key as the target
RECURSIVE PermLoopSwapped(_, _, _)
PermLoopSwapped(pairs, k, perm) ==
    IF k > Len(pairs) THEN [err |-> "none", perm |-> perm]
    ELSE LET tgt == ParseInt(pairs[k][1])
             src == ParseInt(pairs[k][2])
         IN  IF tgt.err # "none" THEN [err |-> tgt.err, perm |-> perm]
             ELSE IF src.err # "none" THEN [err |-> src.err, perm |-> perm]
             ELSE IF ~InRange(tgt.val - 1, N) THEN [err |-> "IndexError", perm |-> perm]
             ELSE PermLoopSwapped(pairs, k + 1,
                     [perm EXCEPT ![NormIndex(tgt.val - 1, N)] = src.val - 1])

\* PermLoop with src_index = int(src), the conversion of line 60 left out
RECURSIVE PermLoopNoConvert(_, _, _)
PermLoopNoConvert(pairs, k, perm) ==
    IF k > Len(pairs) THEN [err |-> "none", perm |-> perm]
    ELSE LET tgt == ParseInt(pairs[k][2])
             src == ParseInt(pairs[k][1])
         IN  IF tgt.err # "none" THEN [err |-> tgt.err, perm |-> perm]
             ELSE IF src.err # "none" THEN [err |-> src.err, perm |-> perm]
             ELSE IF ~InRange(tgt.val - 1, N) THEN [err |-> "IndexError", perm |-> perm]
             ELSE PermLoopNoConvert(pairs, k + 1,
                     [perm EXCEPT ![NormIndex(tgt.val - 1, N)] = src.val])

\* The loop of lines 58-61 over the items k..Len(pairs) of a move's sub-mapping;
\* an item is <<key, value>> and the loop names them src, tgt.
RECURSIVE PermLoop(_, _, _)
PermLoop(pairs, k, perm) ==
    IF k > Len(pairs) THEN [err |-> "none", perm |-> perm]
    ELSE LET tgt == ParseInt(pairs[k][2])      \* line 59: int(tgt), the item's value
             src == ParseInt(pairs[k][1])      \* line 60: int(src), the item's key
         IN  IF tgt.err # "none" THEN [err |-> tgt.err, perm |-> perm]
             ELSE IF src.err # "none" THEN [err |-> src.err, perm |-> perm]
             \* line 61: perm[tgt_index] = src_index
             ELSE IF ~InRange(tgt.val - 1, N) THEN [err |-> "IndexError", perm |-> perm]
             ELSE PermLoop(pairs, k + 1,
                     [perm EXCEPT ![NormIndex(tgt.val - 1, N)] = src.val - 1])

\* lines 56-61 for one move
PermForMove(pairs) == PermLoop(pairs, 1, Identity)

\* MovesLoop with line 56 moved out of the loop: a move's vector starts as the
\* vector of the move before it
RECURSIVE MovesLoopCarried(_, _, _)
MovesLoopCarried(ms, k, ps) ==
    IF k > Len(ms) THEN [err |-> "none", perms |-> ps]
    ELSE LET r == PermLoop(ms[k][2], 1, IF k = 1 THEN Identity ELSE ps[ms[k - 1][1]])
         IN  IF r.err # "none" THEN [err |-> r.err, perms |-> ps]
             ELSE MovesLoopCarried(ms, k + 1, (ms[k][1] :> r.perm) @@ ps)

\* the loop of line 54 over the moves k..Len(ms), perms being the dict so far
RECURSIVE MovesLoop(_, _, _)
MovesLoop(ms, k, ps) ==
    IF k > Len(ms) THEN [err |-> "none", perms |-> ps]
    ELSE LET r == PermForMove(ms[k][2])
         IN  IF r.err # "none" THEN [err |-> r.err, perms |-> ps]
             ELSE MovesLoop(ms, k + 1, (ms[k][1] :> r.perm) @@ ps)

EmptyDict == [x \in {} |-> 0]

precompute_permutations(ms) == MovesLoop(ms, 1, EmptyDict)

-----------------------------------------------------------------------------
(* apply_move, apply_moves *)

\* Take that writes c[i] to position perm[i] instead of reading c[perm[i]]
TakeScatter(c, perm) ==
    IF \E i \in DOMAIN perm : ~InRange(perm[i], Len0(c))
    THEN [err |-> "IndexError", cube |-> c]
    ELSE [err |-> "none",
          cube |-> [j \in DOMAIN perm |->
                      IF \E i \in DOMAIN perm : NormIndex(perm[i], Len0(c)) = j
                      THEN c[CHOOSE i \in DOMAIN perm : NormIndex(perm[i], Len0(c)) = j]
                      ELSE c[j]]]

\* Take that returns the vector in place of the facelets it selects
TakeIndices(c, perm) ==
    IF \E i \in DOMAIN perm : ~InRange(perm[i], Len0(c))
    THEN [err |-> "IndexError", cube |-> c]
    ELSE [err |-> "none", cube |-> [i \in DOMAIN perm |-> NormIndex(perm[i], Len0(c))]]

\* cube[perm] of line 76: a new array with one element per element of perm;
\* IndexError when an entry is outside [-len(cube), len(cube))
Take(c, perm) ==
    LET n == Len0(c)
    IN  IF \E i \in DOMAIN perm : ~InRange(perm[i], n)
        THEN [err |-> "IndexError", cube |-> c]
        ELSE [err |-> "none",
              cube |-> [i \in DOMAIN perm |-> c[NormIndex(perm[i], n)]]]

\* apply_move with perms[move] in place of perms.get(move)
apply_move_strict(c, move, ps) ==
    IF move \notin DOMAIN ps THEN [err |-> "KeyError", cube |-> c]
    ELSE Take(c, ps[move])

apply_move(c, move, ps) ==
    IF move \notin DOMAIN ps THEN [err |-> "none", cube |-> c]     \* lines 73-75
    ELSE Take(c, ps[move])                                         \* line 76

\* RunLoop over reversed(moves)
RECURSIVE RunLoopBackwards(_, _, _, _)
RunLoopBackwards(c, mvs, k, ps) ==
    IF k > Len(mvs) THEN [err |-> "none", cube |-> c]
    ELSE LET r == apply_move(c, mvs[Len(mvs) + 1 - k], ps)
         IN  IF r.err # "none" THEN r ELSE RunLoopBackwards(r.cube, mvs, k + 1, ps)

\* the loop of lines 84-85 over the moves k..Len(mvs)
RECURSIVE RunLoop(_, _, _, _)
RunLoop(c, mvs, k, ps) ==
    IF k > Len(mvs) THEN [err |-> "none", cube |-> c]
    ELSE LET r == apply_move(c, mvs[k], ps)
         IN  IF r.err # "none" THEN r ELSE RunLoop(r.cube, mvs, k + 1, ps)

apply_moves(c, mvs, ps) == RunLoop(c, mvs, 1, ps)

-----------------------------------------------------------------------------
(* load_cube, cube_to_string *)

\* load_cube without the length test of lines 28-29
load_cube_unchecked(rs) ==
    IF Len(rs) < 2 THEN [err |-> "ValueError", cube |-> ToArray(<<>>)]
    ELSE [err |-> "none", cube |-> ToArray(rs[2])]

\* load_cube that reads rows[0], the header, in place of rows[1]
load_cube_header(rs) ==
    IF Len(rs) < 2 THEN [err |-> "ValueError", cube |-> ToArray(<<>>)]
    ELSE IF Len(rs[1]) # N THEN [err |-> "ValueError", cube |-> ToArray(<<>>)]
    ELSE [err |-> "none", cube |-> ToArray(rs[1])]

\* lines 21-33 on the rows read from the CSV file, a list of lists of fields
load_cube(rs) ==
    IF Len(rs) < 2 THEN [err |-> "ValueError", cube |-> ToArray(<<>>)]
    ELSE IF Len(rs[2]) # N THEN [err |-> "ValueError", cube |-> ToArray(<<>>)]
    ELSE [err |-> "none", cube |-> ToArray(rs[2])]

\* the 1-indexed positions that lines 100-111 print, in print order
Layout ==
    <<19, 20, 21, 22, 23, 24, 25, 26, 27,
      10, 11, 12, 1, 2, 3, 28, 29, 30,
      13, 14, 15, 4, 5, 6, 31, 32, 33,
      16, 17, 18, 7, 8, 9, 34, 35, 36,
      37, 38, 39, 40, 41, 42, 43, 44, 45,
      46, 47, 48, 49, 50, 51, 52, 53, 54>>

\* the facelets cube_to_string prints, in print order (col(pos) is cube_state[pos - 1])
cube_to_string(c) == [k \in 1..Len(Layout) |-> c[Layout[k] - 1]]

-----------------------------------------------------------------------------
(* Inputs *)

\* decimal text of an integer in -9..9
Format(n) ==
    LET d(m) == CHOOSE c \in Digits : DigitVal(c) = m
    IN  IF n < 0 THEN <<"-", d(0 - n)>> ELSE <<d(n)>>

\* what the user may type at a prompt of lines 132-134
ParamStrings == {Format(n) : n \in (0 - 1)..MaxParam} \cup {<<"x">>}

\* position texts of a move description: valid ones, 54 (the last valid one),
\* 0 and 55 (one off either end) and one that is no number
PosStrings == {<<"1">>, <<"2">>, <<"5", "4">>, <<"0">>, <<"5", "5">>, <<"x">>}

\* a JSON object has distinct keys
DistinctKeys(pairs) ==
    \A i, j \in 1..Len(pairs) : i # j => pairs[i][1] # pairs[j][1]

\* the sub-mappings of exactly n items over PosStrings, in file order
SubMappings(n) == {p \in [1..n -> PosStrings \X PosStrings] : DistinctKeys(p)}

MoveNames == {"R", "L"}

\* the sub-mappings of at most n items
SubMappingsUpTo(n) == UNION {SubMappings(k) : k \in 0..n}

\* move descriptions: none, one move of at most MaxPairs items, and two moves
\* of at most one item each, in either file order
BuildInputs ==
    {<<>>}
    \cup {<< <<"R", p>> >> : p \in SubMappingsUpTo(MaxPairs)}
    \cup {m \in {<< <<a, p>>, <<b, q>> >> : a \in MoveNames, b \in MoveNames,
                                            p \in SubMappingsUpTo(1),
                                            q \in SubMappingsUpTo(1)} :
            m[1][1] # m[2][1]}

\* symbols of the facelets: a cube whose 54 facelets all differ, and a solved
\* cube of six colours with nine facelets each
DistinctRow == [k \in 1..N |-> 100 + k]
ColourRow == [k \in 1..N |-> (k - 1) \div 9]
Header == [k \in 1..N |-> 0]

-----------------------------------------------------------------------------
(* State *)

VARIABLES
    pc,                       \* where the program is
    stdin,                    \* the three lines the user types
    rows,                     \* the rows of csv_export-StartPos.csv
    mappings,                 \* the content of mappings.json
    num_moves_per_sequence,
    num_iterations,
    num_runs,
    cube,
    perms,
    run,                      \* the loop variable of line 150
    iteration,                \* the iterations of line 153 done in this run
    moves,                    \* the sequence last drawn, or the one under test
    output,                   \* what was printed, one record per print
    err,                      \* the exception that ended the program, or "none"
    ret,                      \* the value returned by the call under test
    drawn                     \* history: every move drawn so far, in draw order

vars ==
    <<pc, stdin, rows, mappings, num_moves_per_sequence, num_iterations, num_runs,
      cube, perms, run, iteration, moves, output, err, ret, drawn>>

NoRet == [err |-> "none", cube |-> ToArray(<<>>)]

\* the variables of main() that a call of one function leaves alone
MainIdle ==
    /\ stdin = <<>>
    /\ num_moves_per_sequence = 0
    /\ num_iterations = 0
    /\ num_runs = 0
    /\ run = 0
    /\ iteration = 0
    /\ output = <<>>
    /\ drawn = <<>>

MainUnchanged ==
    UNCHANGED <<stdin, num_moves_per_sequence, num_iterations, num_runs,
                run, iteration, output, drawn>>

-----------------------------------------------------------------------------
(* The catalog builder called on a description, and one move of the catalog  *)
(* it returned applied to a cube                                             *)

BuildInit ==
    /\ MainIdle
    /\ pc = "build"
    /\ mappings \in BuildInputs
    /\ rows = <<Header, DistinctRow>>
    /\ cube = ToArray(DistinctRow)
    /\ perms = EmptyDict
    /\ moves = <<>>
    /\ err = "none"
    /\ ret = NoRet

\* perms = precompute_permutations(mappings)
Build ==
    /\ pc = "build"
    /\ LET r == precompute_permutations(mappings)
       IN  IF r.err # "none"
           THEN /\ pc' = "error"
                /\ err' = r.err
                /\ perms' = perms
           ELSE /\ pc' = "built"
                /\ err' = err
                /\ perms' = r.perms
    /\ UNCHANGED <<mappings, rows, cube, moves, ret>>
    /\ MainUnchanged

\* ret = apply_move(cube, move, perms) for a move of the catalog
BuildApply ==
    /\ pc = "built"
    /\ \E m \in DOMAIN perms :
          /\ moves' = <<m>>
          /\ ret' = apply_move(cube, m, perms)
    /\ pc' = "applied"
    /\ UNCHANGED <<mappings, rows, cube, perms, err>>
    /\ MainUnchanged

BuildNext == Build \/ BuildApply

SpecBuild == BuildInit /\ [][BuildNext]_vars

-----------------------------------------------------------------------------
(* Claims about the catalog builder, under SpecBuild *)

Built == pc \in {"built", "applied"}

\* the positions an item <<key, value>> names, where both are numbers
KeyPos(item) == ParseInt(item[1]).val
ValuePos(item) == ParseInt(item[2]).val

IsPosition(str) ==
    /\ ParseInt(str).err = "none"
    /\ ParseInt(str).val - 1 >= 0
    /\ ParseInt(str).val - 1 < N

\* every key and value of every move is the text of a position in 1..54
WellFormed(ms) ==
    \A k \in 1..Len(ms) : \A j \in 1..Len(ms[k][2]) :
        IsPosition(ms[k][2][j][1]) /\ IsPosition(ms[k][2][j][2])

\* item j is the last item of pairs that names its value
LastForValue(pairs, j) ==
    \A h \in (j + 1)..Len(pairs) : ValuePos(pairs[h]) # ValuePos(pairs[j])

Malformed(ms) == ~WellFormed(ms)

\* C2: the build of a description with a key or value that is no integer, or
\* whose index is outside [0, 54), fails and produces no catalog.
C2_MalformedRejected ==
    (pc # "build" /\ Malformed(mappings)) =>
        (pc = "error" /\ err # "none" /\ perms = EmptyDict)

\* C3: every vector of a catalog the builder returned has length 54 and only
\* entries in [0, 54).
C3_EntriesInRange ==
    Built =>
        \A m \in DOMAIN perms :
            /\ DOMAIN perms[m] = 0..(N - 1)
            /\ \A i \in 0..(N - 1) : perms[m][i] >= 0 /\ perms[m][i] < N

-----------------------------------------------------------------------------
(* apply_move and apply_moves called on a cube, a catalog the builder         *)
(* returned and a move or a sequence of moves                                 *)

\* sub-mappings of a move: none, a swap, a copy of facelet 1 onto facelet 2, a
\* 3-cycle and its inverse, and two that the builder turns into an entry -1 and
\* an entry 54
SampleSubs ==
    { <<>>,
      << <<<<"1">>, <<"2">>>>, <<<<"2">>, <<"1">>>> >>,
      << <<<<"1">>, <<"2">>>> >>,
      << <<<<"1">>, <<"2">>>>, <<<<"2">>, <<"5", "4">>>>, <<<<"5", "4">>, <<"1">>>> >>,
      << <<<<"2">>, <<"1">>>>, <<<<"5", "4">>, <<"2">>>>, <<<<"1">>, <<"5", "4">>>> >>,
      << <<<<"0">>, <<"1">>>> >>,
      << <<<<"5", "5">>, <<"1">>>> >> }

CatalogInputs ==
    {<<>>}
    \cup {<< <<"R", p>> >> : p \in SampleSubs}
    \cup {<< <<"R", p>>, <<"L", q>> >> : p \in SampleSubs, q \in SampleSubs}

\* the names a caller may pass: those of the catalog and one that is in none
CallNames == MoveNames \cup {"Z"}

SeqsUpTo(S, n) == UNION {[1..k -> S] : k \in 0..n}

\* data rows of 54 fields, of one field less and of one more
ApplyRows ==
    {DistinctRow, ColourRow, [k \in 1..(N - 1) |-> 100 + k], [k \in 1..(N + 1) |-> 100 + k]}

ApplyInit ==
    /\ MainIdle
    /\ pc = "call"
    /\ mappings \in CatalogInputs
    /\ perms = precompute_permutations(mappings).perms
    /\ \E row \in ApplyRows :
          /\ rows = <<Header, row>>
          /\ cube = ToArray(row)
    /\ moves \in SeqsUpTo(CallNames, MaxSeq)
    /\ err = "none"
    /\ ret = NoRet

\* ret = apply_move(cube, m, perms)
CallApplyMove ==
    /\ pc = "call"
    /\ \E m \in CallNames :
          /\ moves' = <<m>>
          /\ ret' = apply_move(cube, m, perms)
    /\ pc' = "returned_move"
    /\ UNCHANGED <<mappings, rows, cube, perms, err>>
    /\ MainUnchanged

\* ret = apply_moves(cube, moves, perms)
CallApplyMoves ==
    /\ pc = "call"
    /\ ret' = apply_moves(cube, moves, perms)
    /\ pc' = "returned_moves"
    /\ UNCHANGED <<mappings, rows, cube, perms, moves, err>>
    /\ MainUnchanged

ApplyNext == CallApplyMove \/ CallApplyMoves

SpecApply == ApplyInit /\ [][ApplyNext]_vars

-----------------------------------------------------------------------------
(* Claims about apply_move and apply_moves, under SpecApply *)

\* the argument of the call as it was when the call was made
Argument == ToArray(rows[2])

\* the move of the finished apply_move call is in the catalog
Catalogued == pc = "returned_move" /\ moves[1] \in DOMAIN perms

\* a state of length 54, and a vector of length 54 with entries in [0, 54)
ValidState(c) == DOMAIN c = 0..(N - 1)
ValidVector(p) == DOMAIN p = 0..(N - 1) /\ \A i \in 0..(N - 1) : p[i] >= 0 /\ p[i] < N

\* C4: apply_move with a catalogued move, a state s of length 54 and a vector p
\* of length 54 with entries in [0, 54) returns r of length 54 with
\* r[i] = s[p[i]] for all i, and leaves s as it was.
C4_Gather ==
    (Catalogued /\ ValidState(Argument) /\ ValidVector(perms[moves[1]])) =>
        /\ ret.err = "none"
        /\ DOMAIN ret.cube = 0..(N - 1)
        /\ \A i \in 0..(N - 1) : ret.cube[i] = Argument[perms[moves[1]][i]]
        /\ cube = Argument

\* C4's case: a valid vector that moves something has been applied to a valid state
C4_Witness ==
    /\ Catalogued
    /\ ValidState(Argument)
    /\ ValidVector(perms[moves[1]])
    /\ ret.err = "none"
    /\ ret.cube # Argument

\* C5: apply_move with a catalogued move fails whenever the state is not of
\* length 54 or an entry of the vector is outside [0, len(s)).
C5_InvalidRejected ==
    (/\ Catalogued
     /\ \/ Len0(Argument) # N
        \/ \E i \in DOMAIN perms[moves[1]] :
               perms[moves[1]][i] < 0 \/ perms[moves[1]][i] >= Len0(Argument))
        => ret.err # "none"

\* the moves of a sequence that the catalog holds, in order
Known(mvs) == SelectSeq(mvs, LAMBDA m : m \in DOMAIN perms)

\* C6: apply_move with a name that is not in the catalog returns its input and
\* raises nothing, and apply_moves returns for a sequence what it returns for
\* the sequence without the names that are not in the catalog.
C6_UnknownIsNoOp ==
    /\ (pc = "returned_move" /\ moves[1] \notin DOMAIN perms) =>
           (ret.err = "none" /\ ret.cube = Argument)
    /\ pc = "returned_moves" => ret = apply_moves(Argument, Known(moves), perms)

\* C6's case: a sequence with an unknown name and a move that changes the state
C6_Witness ==
    /\ pc = "returned_moves"
    /\ ValidState(Argument)
    /\ \E k \in 1..Len(moves) : moves[k] \notin DOMAIN perms
    /\ ret.err = "none"
    /\ ret.cube # Argument

\* apply(...apply(apply(s0, m1), m2)..., mk), from the outermost application in
RECURSIVE LeftFold(_, _, _)
LeftFold(c, mvs, ps) ==
    IF Len(mvs) = 0 THEN [err |-> "none", cube |-> c]
    ELSE LET before == LeftFold(c, SubSeq(mvs, 1, Len(mvs) - 1), ps)
         IN  IF before.err # "none" THEN before
             ELSE apply_move(before.cube, mvs[Len(mvs)], ps)

\* C7: apply_moves returns the left fold of apply_move over the sequence: the
\* moves in list order, each applied to the result of the one before.
C7_LeftFold ==
    pc = "returned_moves" => ret = LeftFold(Argument, moves, perms)

Reverse(q) == [k \in 1..Len(q) |-> q[Len(q) + 1 - k]]

\* C7's case: a sequence of two or more moves whose order matters
C7_Witness ==
    /\ pc = "returned_moves"
    /\ ValidState(Argument)
    /\ Len(moves) >= 2
    /\ ret.err = "none"
    /\ apply_moves(Argument, Reverse(moves), perms) # ret

-----------------------------------------------------------------------------
(* main *)

\* len(range(n)): a negative count is an empty range
RangeLen(n) == IF n > 0 THEN n ELSE 0

\* move descriptions of mappings.json: those of CatalogInputs with at most one
\* sub-mapping that is not a permutation, one with a text that is no number and
\* one with a value past the last position
MainMappings ==
    {m \in CatalogInputs : Len(m) = 2 => m[2][2] = << <<<<"1">>, <<"2">>>>, <<<<"2">>, <<"1">>>> >>}
    \cup { << <<"R", << <<<<"x">>, <<"1">>>> >> >> >>,
           << <<"R", << <<<<"1">>, <<"5", "5">>>> >> >> >> }

\* contents of the CSV file: two cubes, a file with a header only, an empty
\* file, and data rows of 53 and of 55 fields
MainRows ==
    { <<Header, DistinctRow>>, <<Header, ColourRow>>, <<Header>>, <<>>,
      <<Header, [k \in 1..(N - 1) |-> 100 + k]>>,
      <<Header, [k \in 1..(N + 1) |-> 100 + k]>> }

\* the number of move applications the typed parameters ask for
Work(lines) ==
    RangeLen(ParseInt(lines[1]).val) * RangeLen(ParseInt(lines[2]).val)
        * RangeLen(ParseInt(lines[3]).val)

Init ==
    /\ pc = "input"
    /\ stdin \in {l \in [1..3 -> ParamStrings] : Work(l) <= MaxTotal}
    /\ rows \in MainRows
    /\ mappings \in MainMappings
    /\ num_moves_per_sequence = 0
    /\ num_iterations = 0
    /\ num_runs = 0
    /\ cube = ToArray(<<>>)
    /\ perms = EmptyDict
    /\ run = 0
    /\ iteration = 0
    /\ moves = <<>>
    /\ output = <<>>
    /\ err = "none"
    /\ ret = NoRet
    /\ drawn = <<>>

\* the program ends with an uncaught exception
Raise(e) ==
    /\ pc' = "error"
    /\ err' = e

\* lines 132-134: three int(input(...)), in order
ReadParams ==
    /\ pc = "input"
    /\ LET m == ParseInt(stdin[1])
           i == ParseInt(stdin[2])
           r == ParseInt(stdin[3])
       IN  IF m.err # "none"
           THEN /\ Raise(m.err)
                /\ UNCHANGED <<num_moves_per_sequence, num_iterations, num_runs>>
           ELSE IF i.err # "none"
           THEN /\ Raise(i.err)
                /\ num_moves_per_sequence' = m.val
                /\ UNCHANGED <<num_iterations, num_runs>>
           ELSE IF r.err # "none"
           THEN /\ Raise(r.err)
                /\ num_moves_per_sequence' = m.val
                /\ num_iterations' = i.val
                /\ UNCHANGED num_runs
           ELSE /\ pc' = "load"
                /\ err' = err
                /\ num_moves_per_sequence' = m.val
                /\ num_iterations' = i.val
                /\ num_runs' = r.val
    /\ UNCHANGED <<stdin, rows, mappings, cube, perms, run, iteration, moves,
                   output, ret, drawn>>

\* line 137: cube = load_cube()
LoadCube ==
    /\ pc = "load"
    /\ LET r == load_cube(rows)
       IN  IF r.err # "none"
           THEN Raise(r.err) /\ cube' = cube
           ELSE pc' = "precompute" /\ err' = err /\ cube' = r.cube
    /\ UNCHANGED <<stdin, rows, mappings, num_moves_per_sequence, num_iterations,
                   num_runs, perms, run, iteration, moves, output, ret, drawn>>

\* lines 138-140: perms = precompute_permutations(load_mappings())
Precompute ==
    /\ pc = "precompute"
    /\ LET r == precompute_permutations(mappings)
       IN  IF r.err # "none"
           THEN Raise(r.err) /\ perms' = perms
           ELSE pc' = "start" /\ err' = err /\ perms' = r.perms
    /\ UNCHANGED <<stdin, rows, mappings, num_moves_per_sequence, num_iterations,
                   num_runs, cube, run, iteration, moves, output, ret, drawn>>

\* one print: what it is, the run it names, and the facelets it shows
Printed(kind, n, text) == [kind |-> kind, run |-> n, text |-> text]

\* lines 143-147: the starting cube is printed
PrintStart ==
    /\ pc = "start"
    /\ output' = Append(output, Printed("start", 0, cube_to_string(cube)))
    /\ pc' = "runs"
    /\ UNCHANGED <<stdin, rows, mappings, num_moves_per_sequence, num_iterations,
                   num_runs, cube, perms, run, iteration, moves, err, ret, drawn>>

\* MoreRuns with range(1, num_runs + 2)
MoreRunsOffByOne(n) == n < num_runs + 1

\* range(1, num_runs + 1) of line 150 has a value after n
MoreRuns(n) == n < num_runs

\* range(num_iterations) of line 153 has a value after n iterations
MoreIterations(n) == n < num_iterations

\* SequenceLength with range(num_moves_per_sequence + 1)
SequenceLengthOffByOne == RangeLen(num_moves_per_sequence + 1)

\* the length of the list of line 155
SequenceLength == RangeLen(num_moves_per_sequence)

\* IterationInput with the cube loaded anew at the start of every run
IterationInputReset == IF iteration = 0 THEN ToArray(rows[2]) ELSE cube

\* line 157: the cube that apply_moves is given
IterationInput == cube

\* CatalogAfter with perms.pop(move) in place of perms.get(move) in apply_move
CatalogAfterPop(ps, mvs) ==
    [m \in DOMAIN ps \ {mvs[k] : k \in 1..Len(mvs)} |-> ps[m]]

\* the catalog after apply_moves(cube, mvs, ps): lines 73-76 and 84-85 only
\* read perms and the vectors in it
CatalogAfter(ps, mvs) == ps

\* lines 150-152: the next run starts
StartRun ==
    /\ pc = "runs"
    /\ MoreRuns(run)
    /\ run' = run + 1
    /\ iteration' = 0
    /\ pc' = "iter"
    /\ UNCHANGED <<stdin, rows, mappings, num_moves_per_sequence, num_iterations,
                   num_runs, cube, perms, moves, output, err, ret, drawn>>

\* lines 153-157: one iteration draws a sequence and applies it
Iteration ==
    /\ pc = "iter"
    /\ MoreIterations(iteration)
    /\ IF SequenceLength > 0 /\ DOMAIN perms = {}
       THEN \* random.choice of an empty list
            /\ Raise("IndexError")
            /\ UNCHANGED <<cube, perms, iteration, moves, drawn>>
       ELSE \E mvs \in [1..SequenceLength -> DOMAIN perms] :
               LET r == apply_moves(IterationInput, mvs, perms)
               IN  /\ moves' = mvs
                   /\ drawn' = drawn \o mvs
                   /\ perms' = CatalogAfter(perms, mvs)
                   /\ IF r.err # "none"
                      THEN Raise(r.err) /\ UNCHANGED <<cube, iteration>>
                      ELSE /\ cube' = r.cube
                           /\ iteration' = iteration + 1
                           /\ UNCHANGED <<pc, err>>
    /\ UNCHANGED <<stdin, rows, mappings, num_moves_per_sequence, num_iterations,
                   num_runs, run, output, ret>>

\* lines 158-162: the run is over and its banner is printed
EndRun ==
    /\ pc = "iter"
    /\ ~MoreIterations(iteration)
    /\ output' = Append(output, Printed("banner", run, <<>>))
    /\ pc' = "runs"
    /\ UNCHANGED <<stdin, rows, mappings, num_moves_per_sequence, num_iterations,
                   num_runs, cube, perms, run, iteration, moves, err, ret, drawn>>

\* lines 165-166: no run is left and the final cube is printed
PrintFinal ==
    /\ pc = "runs"
    /\ ~MoreRuns(run)
    /\ output' = Append(output, Printed("final", 0, cube_to_string(cube)))
    /\ pc' = "done"
    /\ UNCHANGED <<stdin, rows, mappings, num_moves_per_sequence, num_iterations,
                   num_runs, cube, perms, run, iteration, moves, err, ret, drawn>>

Next ==
    \/ ReadParams
    \/ LoadCube
    \/ Precompute
    \/ PrintStart
    \/ StartRun
    \/ Iteration
    \/ EndRun
    \/ PrintFinal

Spec == Init /\ [][Next]_vars

-----------------------------------------------------------------------------
(* Claims about the benchmark driver, under Spec *)

\* M, I and R as typed, where they are numbers
TypedM == ParseInt(stdin[1])
TypedI == ParseInt(stdin[2])
TypedR == ParseInt(stdin[3])

\* one of the three typed parameters is no integer or is negative
InvalidParameter ==
    \E k \in 1..3 : ParseInt(stdin[k]).err # "none" \/ ParseInt(stdin[k]).val < 0

\* C8: with a parameter that is negative or no integer the driver fails before
\* any run is started.
C8_InvalidParameterRejected ==
    (InvalidParameter /\ pc # "input") => (pc = "error" /\ run = 0 /\ output = <<>>)

\* the state load_cube returned
InitialState == ToArray(rows[2])

\* the program is past its start-up: the cube and the catalog are loaded
Running == pc \in {"runs", "iter", "done"}

\* the iterations finished so far, over all runs
IterationsDone == IF run = 0 THEN 0 ELSE (run - 1) * RangeLen(num_iterations) + iteration

\* C9: one state is threaded through the benchmark.  After every iteration of
\* every run the state is the Sequence Runner's result for the initial state
\* and all sequences drawn so far, in draw order, and so is the final state, by
\* which R*I sequences of M moves have been drawn.
C9_StateThreaded ==
    Running =>
        /\ cube = apply_moves(InitialState, drawn, perms).cube
        /\ Len(drawn) = IterationsDone * RangeLen(num_moves_per_sequence)
        /\ pc = "done" =>
              /\ IterationsDone = RangeLen(num_runs) * RangeLen(num_iterations)
              /\ output[Len(output)] = Printed("final", 0, cube_to_string(cube))

\* C9's case: the benchmark has ended after two or more runs of two or more
\* iterations, with moves drawn whose order matters
C9_Witness ==
    /\ pc = "done"
    /\ num_runs >= 2
    /\ num_iterations >= 2
    /\ num_moves_per_sequence >= 1
    /\ cube # InitialState
    /\ apply_moves(InitialState, Reverse(drawn), perms).cube # cube

\* M, I and R are non-negative integers and one of them is 0
SomeZero ==
    /\ ~InvalidParameter
    /\ \E k \in 1..3 : ParseInt(stdin[k]).val = 0

\* C10: with one of M, I, R equal to 0 and the others non-negative no move is
\* applied, no run fails, and the final state the driver reports is the
\* initial state at every position.
C10_ZeroDoesNothing ==
    SomeZero =>
        /\ drawn = <<>>
        /\ (pc = "error" => output = <<>>)
        /\ Running => cube = InitialState
        /\ pc = "done" =>
              output[Len(output)] = Printed("final", 0, cube_to_string(InitialState))

\* C10's case: runs and iterations were made with M = 0, over a catalog with a
\* move that would change the state
C10_Witness ==
    /\ SomeZero
    /\ pc = "done"
    /\ num_runs > 0
    /\ num_iterations > 0
    /\ \E m \in DOMAIN perms : apply_move(InitialState, m, perms).cube # InitialState

\* the cube has been loaded
Loaded == pc \in {"precompute", "start", "runs", "iter", "done"}

\* the moves a step draws and applies, cut after each of them: the moves that
\* lead from the state before the step to the state after each single move
\* application of lines 84-85
StepPrefixes ==
    {SubSeq(drawn', Len(drawn) + 1, Len(drawn) + k) : k \in 0..(Len(drawn') - Len(drawn))}

\* C11: every state of a run has length 54: the loaded one, the one after
\* every iteration, and the state after every single move application within
\* an iteration, for any catalog the builder returned.
C11_LengthIs54 ==
    /\ [](Loaded => DOMAIN cube = 0..(N - 1))
    /\ [][Running =>
             \A p \in StepPrefixes :
                 LET r == apply_moves(cube, p, perms)
                 IN  r.err = "none" => DOMAIN r.cube = 0..(N - 1)]_vars

\* C11's case: moves were applied that changed the loaded state
C11_Witness ==
    /\ pc = "done"
    /\ Len(drawn) >= 2
    /\ cube # InitialState

\* the three parameters were read, so that load_cube has been called
LoadCalled == pc # "input" /\ pc # "load" /\ ~(\E k \in 1..3 : ParseInt(stdin[k]).err # "none")

\* the CSV file has fewer than two rows, or a second row that has not 54 fields
MalformedInput == Len(rows) < 2 \/ Len(rows[2]) # N

\* C12: with fewer than two rows, or a second row of other than 54 fields,
\* loading fails, no state is produced and the benchmark does not start;
\* otherwise the initial state is the second row's 54 fields in order.
C12_LoadCube ==
    LoadCalled =>
        IF MalformedInput
        THEN /\ pc = "error"
             /\ err = "ValueError"
             /\ cube = ToArray(<<>>)
             /\ output = <<>>
             /\ run = 0
        ELSE /\ DOMAIN cube = 0..(N - 1)
             /\ pc \in {"precompute", "start"} =>
                   \A i \in 0..(N - 1) : cube[i] = rows[2][i + 1]

\* C12's case: a file with a data row of 55 fields was refused
C12_Witness ==
    /\ LoadCalled
    /\ Len(rows) = 2
    /\ Len(rows[2]) = N + 1
    /\ pc = "error"

-----------------------------------------------------------------------------
(* Claims about the order of a description, under SpecBuild *)

IndexOrders(n) == {f \in [1..n -> 1..n] : \A i, j \in 1..n : f[i] = f[j] => i = j}

Reorder(q, f) == [k \in 1..Len(q) |-> q[f[k]]]

Orders(q) == {Reorder(q, f) : f \in IndexOrders(Len(q))}

\* the descriptions with the moves of ms in any order and the items of each
\* move in any order
Reorderings(ms) ==
    LET subs == UNION {Orders(ms[k][2]) : k \in 1..Len(ms)}
        inner == {[k \in 1..Len(ms) |-> <<ms[k][1], c[k]>>] :
                     c \in {d \in [1..Len(ms) -> subs] :
                               \A k \in 1..Len(ms) : d[k] \in Orders(ms[k][2])}}
    IN  UNION {Orders(m) : m \in inner}

\* no two items of one move store to the same element of the vector
DistinctTargets(ms) ==
    \A k \in 1..Len(ms) : \A i, j \in 1..Len(ms[k][2]) :
        i # j => NormIndex(ValuePos(ms[k][2][i]) - 1, N)
                     # NormIndex(ValuePos(ms[k][2][j]) - 1, N)

-----------------------------------------------------------------------------
(* Round trip, under SpecApply *)

\* the sub-mapping of the move called name in the description
SubMappingOf(name) ==
    LET k == CHOOSE k \in 1..Len(mappings) : mappings[k][1] = name
    IN  mappings[k][2]

\* the items of a sub-mapping as pairs of positions
PositionPairs(pairs) == {<<KeyPos(pairs[j]), ValuePos(pairs[j])>> : j \in 1..Len(pairs)}

\* p maps the positions it mentions one-to-one onto themselves, and q is the
\* same pairs turned round
InverseBijections(p, q) ==
    /\ \A j \in 1..Len(p) : IsPosition(p[j][1]) /\ IsPosition(p[j][2])
    /\ \A j \in 1..Len(q) : IsPosition(q[j][1]) /\ IsPosition(q[j][2])
    /\ Cardinality({x[1] : x \in PositionPairs(p)}) = Len(p)
    /\ Cardinality({x[2] : x \in PositionPairs(p)}) = Len(p)
    /\ {x[1] : x \in PositionPairs(p)} = {x[2] : x \in PositionPairs(p)}
    /\ Len(q) = Len(p)
    /\ PositionPairs(q) = {<<x[2], x[1]>> : x \in PositionPairs(p)}

\* a move and then a move described by the inverse bijection have been applied
\* to a state of length 54
RoundTripMade ==
    /\ pc = "returned_moves"
    /\ Len(moves) = 2
    /\ moves[1] \in DOMAIN perms
    /\ moves[2] \in DOMAIN perms
    /\ InverseBijections(SubMappingOf(moves[1]), SubMappingOf(moves[2]))
    /\ ValidState(Argument)

\* C14: a move A and then a move A' whose description is the inverse bijection
\* of A's on the positions they mention, applied to a state of length 54,
\* return that state at every position.
C14_RoundTrip ==
    RoundTripMade =>
        /\ ret.err = "none"
        /\ DOMAIN ret.cube = 0..(N - 1)
        /\ \A i \in 0..(N - 1) : ret.cube[i] = Argument[i]

\* C14's case: the round trip of a move that changes the state and is not its
\* own inverse
C14_Witness ==
    /\ RoundTripMade
    /\ perms[moves[1]] # perms[moves[2]]
    /\ apply_move(Argument, moves[1], perms).cube # Argument

-----------------------------------------------------------------------------
(* Claims about the course of the benchmark, under Spec *)

\* C15: for non-negative M, I, R and any catalog the builder returned, the
\* empty one included, every started run completes, and the final report is
\* reached after exactly R*I*M move applications.  (Stated here for the
\* catalogs whose vectors have all entries in [0, 54).)
C15_RunsComplete ==
    (/\ ~InvalidParameter
     /\ \A m \in DOMAIN perms : ValidVector(perms[m])) =>
        /\ pc = "error" => run = 0
        /\ pc = "done" =>
              Len(drawn) = TypedR.val * TypedI.val * TypedM.val

\* the banners printed so far: one for every run that is over
BannersDue == IF pc = "iter" THEN run - 1 ELSE run

\* the starting position, the banners of the runs 1..b in order and, if fin,
\* the final position
OutputFor(b, fin) ==
    <<Printed("start", 0, cube_to_string(InitialState))>>
        \o [k \in 1..b |-> Printed("banner", k, <<>>)]
        \o (IF fin THEN <<Printed("final", 0, cube_to_string(cube))>> ELSE <<>>)

\* C16: the starting position is printed first, then one banner per run,
\* numbered 1, 2, ..., R in order and each only after the I iterations of its
\* run, also when I = 0, then the final position once; with R = 0 the final
\* position follows the starting one directly.
C16_OutputOrder ==
    /\ ~Running => (output = <<>> \/ (pc = "error" /\ run > 0))
    /\ (pc = "error" /\ run > 0) => output = OutputFor(run - 1, FALSE)
    /\ Running =>
          /\ output = OutputFor(BannersDue, pc = "done")
          /\ IterationsDone >= BannersDue * RangeLen(num_iterations)
          /\ BannersDue <= RangeLen(num_runs)
          /\ pc = "done" => BannersDue = RangeLen(num_runs)

\* C16's case: the final position was printed after two or more runs with
\* iterations
C16_Witness ==
    /\ pc = "done"
    /\ num_runs >= 2
    /\ num_iterations >= 1
    /\ Len(output) = num_runs + 2

\* the program is past the build of the catalog
CatalogBuilt == Running \/ pc = "start" \/ (pc = "error" /\ run > 0)

\* C17: the catalog is what the builder returned at every later point: no
\* iteration, run or print adds, removes or alters an entry or an element of a
\* vector, and every move drawn is a name of that catalog.
C17_CatalogUnchanged ==
    CatalogBuilt =>
        /\ perms = precompute_permutations(mappings).perms
        /\ DOMAIN perms = {mappings[k][1] : k \in 1..Len(mappings)}
        /\ \A k \in 1..Len(drawn) : drawn[k] \in DOMAIN perms

\* C17's case: the benchmark has ended after two or more runs that drew moves
\* from a catalog of two moves
C17_Witness ==
    /\ pc = "done"
    /\ num_runs >= 2
    /\ Cardinality(DOMAIN perms) = 2
    /\ \E j, k \in 1..Len(drawn) : drawn[j] # drawn[k]

-----------------------------------------------------------------------------
(* Claims about the symbols of the state, under Spec *)

\* the symbols a state holds
Symbols(c) == {c[i] : i \in DOMAIN c}

\* every vector of the catalog has length 54 and entries in [0, 54)
AllValid == \A m \in DOMAIN perms : ValidVector(perms[m])

\* C18: with a catalog whose vectors have entries in [0, 54), every position of
\* every state of a run, the state after each single move application
\* included, holds a symbol of the loaded state.
C18_NoNewSymbol ==
    /\ []((Running /\ AllValid) => Symbols(cube) \subseteq Symbols(InitialState))
    /\ [][(Running /\ AllValid) =>
             \A p \in StepPrefixes :
                 Symbols(apply_moves(cube, p, perms).cube)
                     \subseteq Symbols(InitialState)]_vars

\* C18's case: moves of a catalog of valid vectors were applied and changed
\* the symbols that the state holds
C18_Witness ==
    /\ pc = "done"
    /\ AllValid
    /\ Len(drawn) >= 1
    /\ Symbols(cube) # Symbols(InitialState)

\* a vector that is a one-to-one map of 0..53 onto itself
Bijective(p) ==
    /\ ValidVector(p)
    /\ {p[i] : i \in 0..(N - 1)} = 0..(N - 1)

AllBijective == \A m \in DOMAIN perms : Bijective(perms[m])

\* how often a state holds a symbol
Count(c, x) == Cardinality({i \in DOMAIN c : c[i] = x})

\* the state holds every symbol as often as the loaded state does
Rearranged(c) ==
    /\ Symbols(c) = Symbols(InitialState)
    /\ \A x \in Symbols(InitialState) : Count(c, x) = Count(InitialState, x)

\* C19: with a catalog of bijective vectors every state of a run is a
\* rearrangement of the loaded state; and, whatever the catalog, a symbol that
\* a state has lost is in no later state.
C19_Rearrangement ==
    /\ [](Running /\ AllBijective => Rearranged(cube))
    /\ [][Running /\ Running' => Symbols(cube') \subseteq Symbols(cube)]_vars

\* C19's case: the builder returned a vector that is not bijective, and a run
\* with it has lost a symbol of the loaded state and changed a symbol's count
C19_Witness ==
    /\ pc = "done"
    /\ ~AllBijective
    /\ AllValid
    /\ Symbols(cube) # Symbols(InitialState)
    /\ \E x \in Symbols(cube) : Count(cube, x) # Count(InitialState, x)

=============================================================================
